---------------------------- MODULE Spec2Model ----------------------------
(***************************************************************************)
(* A model of the image synthesis core of svbrdf-estimation:               *)
(*   - renderers.py : LocalRenderer (Cook-Torrance BRDF, point light),     *)
(*   - dataset.py   : SvbrdfDataset.__getitem__ / read_sample / mix.       *)
(*                                                                         *)
(* The program computes on torch float32 tensors.  A float is modelled as  *)
(* a pair <<m, e>> standing for m * 2^e, with a signed significand of      *)
(* MantBits bits instead of float32's 24 bits, and with the IEEE-754       *)
(* special values: zero, +infinity, -infinity and NaN.  Results are        *)
(* rounded toward zero; x/0, 0/0, 0*inf, inf-inf, sqrt of a negative and   *)
(* every operation on NaN behave as IEEE-754 prescribes.  The sign of a    *)
(* zero is not modelled (an x/0 takes the sign of x).                      *)
(***************************************************************************)
EXTENDS Integers, Sequences, FiniteSets

\* ------------------------------------------------------------------------
\* float32 arithmetic (torch element-wise operations)
\* ------------------------------------------------------------------------

MinMant == 2^14              \* a normalised significand m has MinMant <= |m| < MaxMant
MaxMant == 2^15
MantBits == 3 * 5            \* MaxMant = 2^MantBits
ExpSpecial == 2^12           \* the exponent field of infinity and NaN
MaxValueExp == 2^7           \* float32 overflows to infinity from 2^128 on
MinValueExp == 0 - 149       \* float32 underflows to zero below 2^-149

Zero == <<0, 0>>
PosInf == <<1, ExpSpecial>>
NegInf == <<0 - 1, ExpSpecial>>
NaN == <<0, ExpSpecial>>

IsNaN(a) == a = NaN
IsInf(a) == a = PosInf \/ a = NegInf
IsZero(a) == a = Zero
IsFinite(a) == a[2] # ExpSpecial

Abs(n) == IF n < 0 THEN 0 - n ELSE n
Sgn(n) == IF n < 0 THEN 0 - 1 ELSE IF n > 0 THEN 1 ELSE 0
Inf(s) == IF s < 0 THEN NegInf ELSE PosInf

\* The sign of a float: -1, 0 or 1 (0 for zero and for NaN).
Sign(a) == Sgn(a[1])

RECURSIVE NormMag(_, _)
\* The normalised pair of the positive integer m scaled by 2^e: m is halved
\* (dropping the low bit) or doubled until MinMant <= m < MaxMant, several
\* bits at a time.
NormMag(m, e) ==
    IF m >= MaxMant
    THEN IF m >= MaxMant * 256 THEN NormMag(m \div 256, e + 8)
         ELSE IF m >= MaxMant * 16 THEN NormMag(m \div 16, e + 4)
         ELSE IF m >= MaxMant * 4 THEN NormMag(m \div 4, e + 2)
         ELSE NormMag(m \div 2, e + 1)
    ELSE IF m < MinMant
    THEN IF m * 256 < MaxMant THEN NormMag(m * 256, e - 8)
         ELSE IF m * 16 < MaxMant THEN NormMag(m * 16, e - 4)
         ELSE IF m * 4 < MaxMant THEN NormMag(m * 4, e - 2)
         ELSE NormMag(m * 2, e - 1)
    ELSE <<m, e>>

\* Rounding of the exact value m * 2^e to a float, with float32's range.
Norm(m, e) ==
    IF m = 0 THEN Zero
    ELSE LET r == NormMag(Abs(m), e)
         IN  IF r[2] + MantBits > MaxValueExp THEN Inf(m)
             ELSE IF r[2] + MantBits <= MinValueExp THEN Zero
             ELSE <<Sgn(m) * r[1], r[2]>>

FromInt(n) == Norm(n, 0)

FNeg(a) == IF IsNaN(a) THEN NaN ELSE <<0 - a[1], a[2]>>

FMul(a, b) ==
    IF IsNaN(a) \/ IsNaN(b) THEN NaN
    ELSE IF IsInf(a) \/ IsInf(b)
         THEN IF IsZero(a) \/ IsZero(b) THEN NaN ELSE Inf(Sign(a) * Sign(b))
    ELSE Norm(a[1] * b[1], a[2] + b[2])

FDiv(a, b) ==
    IF IsNaN(a) \/ IsNaN(b) THEN NaN
    ELSE IF IsInf(a)
         THEN IF IsInf(b) THEN NaN
              ELSE Inf(Sign(a) * (IF IsZero(b) THEN 1 ELSE Sign(b)))
    ELSE IF IsInf(b) THEN Zero
    ELSE IF IsZero(b)
         THEN IF IsZero(a) THEN NaN ELSE Inf(Sign(a))
    ELSE Norm(Sign(a) * Sign(b) * ((Abs(a[1]) * MaxMant) \div Abs(b[1])),
              a[2] - b[2] - MantBits)

FAdd(a, b) ==
    IF IsNaN(a) \/ IsNaN(b) THEN NaN
    ELSE IF IsInf(a) THEN (IF IsInf(b) /\ a # b THEN NaN ELSE a)
    ELSE IF IsInf(b) THEN b
    ELSE IF IsZero(a) THEN b
    ELSE IF IsZero(b) THEN a
    ELSE LET hi == IF a[2] >= b[2] THEN a ELSE b
             lo == IF a[2] >= b[2] THEN b ELSE a
             d  == hi[2] - lo[2]
         IN  IF d > MantBits THEN hi
             ELSE Norm(hi[1] * 2^d + lo[1], lo[2])

FSub(a, b) == FAdd(a, FNeg(b))

\* a < b, a > b, ... : every comparison with NaN is false.
FLt(a, b) ==
    /\ ~IsNaN(a) /\ ~IsNaN(b) /\ a # b
    /\ IF a = NegInf \/ b = PosInf THEN TRUE
       ELSE IF a = PosInf \/ b = NegInf THEN FALSE
       ELSE Sign(FSub(a, b)) < 0
FGt(a, b) == FLt(b, a)
FLe(a, b) == ~IsNaN(a) /\ ~IsNaN(b) /\ ~FLt(b, a)
FGe(a, b) == FLe(b, a)

RECURSIVE IsqrtIter(_, _, _)
\* The largest r in lo..hi with r*r <= n, by bisection (n < 2^31).
IsqrtIter(n, lo, hi) ==
    IF lo >= hi THEN lo
    ELSE LET mid == (lo + hi + 1) \div 2
         IN  IF mid * mid <= n THEN IsqrtIter(n, mid, hi)
             ELSE IsqrtIter(n, lo, mid - 1)
Isqrt(n) == IsqrtIter(n, 0, 46340)

\* torch.sqrt
FSqrt(a) ==
    IF IsNaN(a) \/ Sign(a) < 0 THEN NaN
    ELSE IF IsInf(a) \/ IsZero(a) THEN a
    ELSE IF a[2] % 2 = 0
         THEN Norm(Isqrt(a[1] * 2 * MaxMant), (a[2] - MantBits - 1) \div 2)
         ELSE Norm(Isqrt(a[1] * MaxMant), (a[2] - MantBits) \div 2)

\* torch.clamp(x, min=lo), torch.clamp(x, min=lo, max=hi), torch.max(a, b):
\* all propagate NaN.
ClampMin(x, lo) == IF IsNaN(x) THEN NaN ELSE IF FLt(x, lo) THEN lo ELSE x
Clamp(x, lo, hi) ==
    IF IsNaN(x) THEN NaN ELSE IF FLt(x, lo) THEN lo ELSE IF FGt(x, hi) THEN hi ELSE x
FMax(a, b) == IF IsNaN(a) \/ IsNaN(b) THEN NaN ELSE IF FLt(a, b) THEN b ELSE a

\* The float nearest below the ratio n/d of two integers (a decimal literal).
Ratio(n, d) == FDiv(FromInt(n), FromInt(d))

One == FromInt(1)
Two == FromInt(2)
Four == FromInt(4)
Pi == Ratio(355, 113)        \* math.pi, to more digits than the significand holds

Half == Ratio(1, 2)
Milli == Ratio(1, 1000)     \* 0.001

\* ------------------------------------------------------------------------
\* renderers.py: vectors and the Cook-Torrance BRDF at one pixel
\* ------------------------------------------------------------------------

\* A 3-vector is a tuple <<x, y, z>> of floats (the channel axis, dim -3).
VAdd(a, b) == <<FAdd(a[1], b[1]), FAdd(a[2], b[2]), FAdd(a[3], b[3])>>
VSub(a, b) == <<FSub(a[1], b[1]), FSub(a[2], b[2]), FSub(a[3], b[3])>>
VDivS(a, s) == <<FDiv(a[1], s), FDiv(a[2], s), FDiv(a[3], s)>>
VMulS(a, s) == <<FMul(a[1], s), FMul(a[2], s), FMul(a[3], s)>>

dot_product(a, b) ==
    FAdd(FAdd(FMul(a[1], b[1]), FMul(a[2], b[2])), FMul(a[3], b[3]))

normalize(a) == VDivS(a, FSqrt(dot_product(a, a)))

\* (x > 0.0) * ones_like(x)
xi(x) == IF FGt(x, Zero) THEN One ELSE Zero

Square(x) == FMul(x, x)
Pow5(x) == FMul(FMul(Square(x), Square(x)), x)

compute_diffuse_term(diffuse, ks) ==
    LET kd == FSub(One, ks)
    IN  FDiv(FMul(kd, diffuse), Pi)

\* clamp(NH^2 * (alpha^2 + (1 - NH^2) / NH^2), min=0.001)
denominator_part(roughness, NH) ==
    LET alpha         == Square(roughness)
        alpha_squared == Square(alpha)
        NH_squared    == Square(NH)
    IN  ClampMin(FMul(NH_squared,
                      FAdd(alpha_squared, FDiv(FSub(One, NH_squared), NH_squared))),
                 Milli)

compute_microfacet_distribution(roughness, NH) ==
    LET alpha         == Square(roughness)
        alpha_squared == Square(alpha)
    IN  FDiv(FMul(alpha_squared, xi(NH)),
             FMul(Pi, Square(denominator_part(roughness, NH))))

compute_fresnel(specular, VH) ==
    FAdd(specular, FMul(FSub(One, specular), Pow5(FSub(One, VH))))

\* 1 + sqrt(1 + alpha^2 * (1 - XN^2) / XN^2), the divisor of compute_g1
g1_divisor(roughness, XN) ==
    LET alpha         == Square(roughness)
        alpha_squared == Square(alpha)
        XN_squared    == Square(XN)
    IN  FAdd(One, FSqrt(FAdd(One,
             FDiv(FMul(alpha_squared, FSub(One, XN_squared)), XN_squared))))

compute_g1(roughness, XH, XN) ==
    FDiv(FMul(Two, xi(FDiv(XH, XN))), g1_divisor(roughness, XN))

compute_geometry(roughness, VH, LH, VN, LN) ==
    FMul(compute_g1(roughness, VH, VN), compute_g1(roughness, LH, LN))

\* H = normalize((wi + wo) / 2.0)
HalfVector(wi, wo) == normalize(VDivS(VAdd(wi, wo), Two))

\* F * G * D / (4.0 * VN * LN), for one channel
specular_quotient(F, G, D, VN, LN) ==
    FDiv(FMul(FMul(F, G), D), FMul(FMul(Four, VN), LN))

\* compute_specular_term at one pixel: wi, wo, normals are 3-vectors, and
\* roughness, specular hold one value per colour channel; the result is, per
\* channel, <<specular term, F>>.
compute_specular_term(wi, wo, normals, diffuse, roughness, specular) ==
    LET H  == HalfVector(wi, wo)
        NH == dot_product(normals, H)
        VH == dot_product(wo, H)
        LH == dot_product(wi, H)
        VN == dot_product(wo, normals)
        LN == dot_product(wi, normals)
    IN  [c \in 1..3 |->
            LET F == compute_fresnel(specular[c], VH)
                G == compute_geometry(roughness[c], VH, LH, VN, LN)
                D == compute_microfacet_distribution(roughness[c], NH)
            IN  <<specular_quotient(F, G, D, VN, LN), F>>]

\* evaluate_brdf at one pixel, per channel.
evaluate_brdf(wi, wo, normals, diffuse, roughness, specular) ==
    LET st == compute_specular_term(wi, wo, normals, diffuse, roughness, specular)
    IN  [c \in 1..3 |->
            LET specular_term == st[c][1]
                ks            == st[c][2]
                diffuse_term  == compute_diffuse_term(diffuse[c], ks)
            IN  FAdd(diffuse_term, specular_term)]

\* The divisors of every division of one channel of the BRDF evaluation:
\* NH^2 and pi * denominator_part^2 in D; XN, XN^2 and 1 + sqrt(..) in each
\* G1; 4 * VN * LN in the specular term.
brdf_divisors(wi, wo, normals, roughness) ==
    LET H  == HalfVector(wi, wo)
        NH == dot_product(normals, H)
        VN == dot_product(wo, normals)
        LN == dot_product(wi, normals)
    IN  { Square(NH), FMul(Pi, Square(denominator_part(roughness, NH))),
          VN, Square(VN), g1_divisor(roughness, VN),
          LN, Square(LN), g1_divisor(roughness, LN),
          FMul(FMul(Four, VN), LN) }

\* ------------------------------------------------------------------------
\* State
\* ------------------------------------------------------------------------

VARIABLES
    pc,         \* the statement the running call is at
    scene,      \* render: the Scene argument
    svbrdf,     \* render: the packed SVBRDF argument, svbrdf[row][col] = 12 channels
    wo,         \* render: view direction per pixel
    wi,         \* render: light direction per pixel
    material,   \* render: the unpacked maps per pixel, roughness clamped
    f,          \* render: the BRDF value per pixel and channel
    radiance,   \* render: the radiance per pixel and channel
    image,      \* render: the returned image
    svbrdf_0,   \* mix: the first SVBRDF argument
    svbrdf_1,   \* mix: the second SVBRDF argument
    alpha,      \* mix: the blend factor drawn
    mixed,      \* mix: the returned SVBRDF
    self,           \* SvbrdfDataset: the fields set by __init__
    idx,            \* __getitem__: the argument idx
    input_images,   \* __getitem__: the local input_images
    item_svbrdf,    \* __getitem__: the local svbrdf
    generated_input_image_count,    \* __getitem__: the local of that name
    light_poses,    \* __getitem__: the local of that name
    light_colors,   \* __getitem__: the local of that name
    view_poses,     \* __getitem__: the local of that name
    loop_i,         \* __getitem__: the loop variable i
    render_calls,   \* history: the calls of renderer.render, in order
    sampled,        \* history: the random draws of the scene sampler, in order
    result          \* __getitem__: the dictionary returned

renderVars == <<scene, svbrdf, wo, wi, material, f, radiance, image>>
mixVars == <<svbrdf_0, svbrdf_1, alpha, mixed>>
datasetVars ==
    <<self, idx, input_images, item_svbrdf, generated_input_image_count,
      light_poses, light_colors, view_poses, loop_i, render_calls, sampled, result>>
vars == <<pc, renderVars, mixVars, datasetVars>>

\* The value of a local variable that is not assigned yet.
None == <<>>

\* The state of a dataset on which __getitem__ has not been called.
DatasetIdle ==
    /\ self = None /\ idx = None /\ input_images = None /\ item_svbrdf = None
    /\ generated_input_image_count = None /\ light_poses = None
    /\ light_colors = None /\ view_poses = None /\ loop_i = None
    /\ render_calls = None /\ sampled = None /\ result = None

\* The state of a renderer on which render has not been called.
RenderIdle ==
    /\ scene = None /\ svbrdf = None /\ wo = None /\ wi = None /\ material = None
    /\ f = None /\ radiance = None /\ image = None

\* The state in which mix has not been called.
MixIdle == svbrdf_0 = None /\ svbrdf_1 = None /\ alpha = None /\ mixed = None


\* ------------------------------------------------------------------------
\* renderers.py: LocalRenderer.render
\* ------------------------------------------------------------------------

\* An image tensor [C, H, W] is a sequence of H rows of W pixels, each pixel
\* the tuple of its C channels.
Height(img) == Len(img)
Width(img) == Len(img[1])
Rows(img) == 1..Height(img)
Cols(img) == 1..Width(img)

\* torch.linspace(-1, 1, steps)[pos], pos counted from 0
linspace(steps, pos) ==
    IF steps = 1 THEN FNeg(One)
    ELSE LET step == FDiv(Two, FromInt(steps - 1))
         IN  IF pos < steps \div 2
             THEN FAdd(FNeg(One), FMul(step, FromInt(pos)))
             ELSE FSub(One, FMul(step, FromInt(steps - pos - 1)))

\* The surface point of the pixel in row i, column j (both counted from 1):
\* (xcoords, ycoords, 0) with ycoords = -1 * transpose(xcoords).
coords(img, i, j) ==
    <<linspace(Width(img), j - 1), FNeg(linspace(Width(img), i - 1)), Zero>>

\* utils.unpack_svbrdf: the four maps of one pixel, channels 0:3, 3:6, 6:9, 9:12.
unpack_svbrdf(px) ==
    [normals |-> SubSeq(px, 1, 3), diffuse |-> SubSeq(px, 4, 6),
     roughness |-> SubSeq(px, 7, 9), specular |-> SubSeq(px, 10, 12)]

\* utils.pack_svbrdf: the 12 channels of one pixel.
pack_svbrdf(normals, diffuse, roughness, specular) ==
    normals \o diffuse \o roughness \o specular

\* wo = normalize(camera_pos - coords)
view_directions(sc, sv) ==
    [i \in Rows(sv) |-> [j \in Cols(sv) |->
        normalize(VSub(sc.camera.pos, coords(sv, i, j)))]]

\* roughness = torch.clamp(roughness, min=0.001)
clamp_roughness(roughness) ==
    [c \in 1..3 |-> ClampMin(roughness[c], Milli)]

unpack_and_clamp(sv) ==
    [i \in Rows(sv) |-> [j \in Cols(sv) |->
        LET m == unpack_svbrdf(sv[i][j])
        IN  [m EXCEPT !.roughness = clamp_roughness(m.roughness)]]]

relative_light_pos(sc, sv, i, j) == VSub(sc.light.pos, coords(sv, i, j))

\* wi = normalize(light_pos - coords)
light_directions(sc, sv) ==
    [i \in Rows(sv) |-> [j \in Cols(sv) |->
        normalize(relative_light_pos(sc, sv, i, j))]]

brdf_image(sv, wis, wos, mat) ==
    [i \in Rows(sv) |-> [j \in Cols(sv) |->
        evaluate_brdf(wis[i][j], wos[i][j], mat[i][j].normals, mat[i][j].diffuse,
                      mat[i][j].roughness, mat[i][j].specular)]]

\* LN = clamp(dot(wi, normals), min=0); falloff = 1 / sqrt(dot(rel, rel))^2;
\* radiance = (f * (light_color * falloff)) * LN
shade(sc, sv, wis, mat, fs) ==
    [i \in Rows(sv) |-> [j \in Cols(sv) |->
        LET LN      == ClampMin(dot_product(wis[i][j], mat[i][j].normals), Zero)
            rel     == relative_light_pos(sc, sv, i, j)
            falloff == FDiv(One, Square(FSqrt(dot_product(rel, rel))))
        IN  [c \in 1..3 |->
                FMul(FMul(fs[i][j][c], FMul(sc.light.color[c], falloff)), LN)]]]

\* A render that returns the radiance as it is, the final clamp left out.
clamp_image_missing(img) == img

\* torch.clamp(radiance, min=0.0, max=1.0)
clamp_image(img) ==
    [i \in Rows(img) |-> [j \in Cols(img) |->
        [c \in 1..3 |-> Clamp(img[i][j][c], Zero, One)]]]

\* lines 67-76
RenderView ==
    /\ pc = "render"
    /\ wo' = view_directions(scene, svbrdf)
    /\ pc' = "unpack"
    /\ UNCHANGED <<scene, svbrdf, wi, material, f, radiance, image>>
    /\ UNCHANGED <<mixVars, datasetVars>>

\* lines 78-81
RenderUnpack ==
    /\ pc = "unpack"
    /\ material' = unpack_and_clamp(svbrdf)
    /\ pc' = "light"
    /\ UNCHANGED <<scene, svbrdf, wo, wi, f, radiance, image>>
    /\ UNCHANGED <<mixVars, datasetVars>>

\* lines 85-87
RenderLight ==
    /\ pc = "light"
    /\ wi' = light_directions(scene, svbrdf)
    /\ pc' = "brdf"
    /\ UNCHANGED <<scene, svbrdf, wo, material, f, radiance, image>>
    /\ UNCHANGED <<mixVars, datasetVars>>

\* line 89
RenderBrdf ==
    /\ pc = "brdf"
    /\ f' = brdf_image(svbrdf, wi, wo, material)
    /\ pc' = "shade"
    /\ UNCHANGED <<scene, svbrdf, wo, wi, material, radiance, image>>
    /\ UNCHANGED <<mixVars, datasetVars>>

\* lines 90-94
RenderShade ==
    /\ pc = "shade"
    /\ radiance' = shade(scene, svbrdf, wi, material, f)
    /\ pc' = "clamp"
    /\ UNCHANGED <<scene, svbrdf, wo, wi, material, f, image>>
    /\ UNCHANGED <<mixVars, datasetVars>>

\* line 100
RenderReturn ==
    /\ pc = "clamp"
    /\ image' = clamp_image(radiance)
    /\ pc' = "rendered"
    /\ UNCHANGED <<scene, svbrdf, wo, wi, material, f, radiance>>
    /\ UNCHANGED <<mixVars, datasetVars>>

\* ------------------------------------------------------------------------
\* The inputs render is checked on
\* ------------------------------------------------------------------------

ImageSize == 3               \* rows and columns of the material patch

V3(x, y, z) == <<FromInt(x), FromInt(y), FromInt(z)>>
Gray(v) == <<v, v, v>>

\* Unit normals: facing the camera side, lying in the patch plane, facing
\* away, and tilted.
RenderNormals ==
    {V3(0, 0, 1), V3(1, 0, 0), V3(0, 0, 0 - 1), <<Ratio(3, 5), Zero, Ratio(4, 5)>>}
RenderDiffuse == {<<One, Zero, Half>>}
RenderRoughness == {Gray(Zero), Gray(Half), Gray(One)}
RenderSpecular == {Gray(Ratio(4, 100)), Gray(One)}

RenderMaterials ==
    {pack_svbrdf(n, d, r, s) :
        n \in RenderNormals, d \in RenderDiffuse,
        r \in RenderRoughness, s \in RenderSpecular}

\* normal [0,0,1], diffuse 0.5, roughness 0.5, specular 0.04
FlatMaterial ==
    pack_svbrdf(V3(0, 0, 1), Gray(Half), Gray(Half), Gray(Ratio(4, 100)))

\* The pixels nearest the centre of an n x n patch, and all of them.
CentreIndex(n) == (n + 1) \div 2
CentrePixels(n) == {<<CentreIndex(n), CentreIndex(n)>>}
AllPixels(n) == (1..n) \X (1..n)

\* A patch of FlatMaterial with material m at the pixels of Q.
Patch(n, m, Q) ==
    [i \in 1..n |-> [j \in 1..n |-> IF <<i, j>> \in Q THEN m ELSE FlatMaterial]]

RenderSvbrdfs ==
    {Patch(ImageSize, m, Q) :
        m \in RenderMaterials \cup {FlatMaterial},
        Q \in {AllPixels(ImageSize), CentrePixels(ImageSize)}}

MkScene(cam, lpos, col) ==
    [camera |-> [pos |-> cam], light |-> [pos |-> lpos, color |-> col]]

RenderScenes ==
    {MkScene(cam, lpos, col) :
        cam \in {V3(0, 0, 2), V3(1, 0, 2)},
        lpos \in {V3(0, 0, 2), V3(0 - 1, 0 - 1, 2), V3(0, 0, 0 - 2)},
        col \in {Gray(FromInt(50))}}

RenderInit ==
    /\ pc = "render"
    /\ scene \in RenderScenes
    /\ svbrdf \in RenderSvbrdfs
    /\ wo = None /\ wi = None /\ material = None
    /\ f = None /\ radiance = None /\ image = None
    /\ MixIdle /\ DatasetIdle

RenderNext ==
    \/ RenderView
    \/ RenderUnpack
    \/ RenderLight
    \/ RenderBrdf
    \/ RenderShade
    \/ RenderReturn

RenderSpec == RenderInit /\ [][RenderNext]_vars

\* ------------------------------------------------------------------------
\* dataset.py: SvbrdfDataset.mix
\* ------------------------------------------------------------------------

Centi == Ratio(1, 100)      \* 0.01

\* normals / torch.max(torch.Tensor([0.01]), normals[2:3])
project_normals(normals) == VDivS(normals, FMax(Centi, normals[3]))

\* A blend whose second weight is missing: alpha * a + b.
blend_unweighted(al, a, b) ==
    [c \in 1..3 |-> FAdd(FMul(al, a[c]), b[c])]

\* alpha * a + (1.0 - alpha) * b, per channel
blend(al, a, b) ==
    [c \in 1..3 |-> FAdd(FMul(al, a[c]), FMul(FSub(One, al), b[c]))]

\* v / torch.sqrt(torch.sum(v**2, axis=0))
normalize_mixed(v) ==
    VDivS(v, FSqrt(FAdd(FAdd(Square(v[1]), Square(v[2])), Square(v[3]))))

\* A mix that returns the blended projected normals as they are.
mix_normals_unnormalized(al, normals_0, normals_1) ==
    blend(al, project_normals(normals_0), project_normals(normals_1))

\* lines 207-211
mix_normals(al, normals_0, normals_1) ==
    normalize_mixed(blend(al, project_normals(normals_0), project_normals(normals_1)))

\* SvbrdfDataset.mix at one pixel, for the blend factor al.
mix_pixel(al, px_0, px_1) ==
    LET m0 == unpack_svbrdf(px_0)
        m1 == unpack_svbrdf(px_1)
    IN  pack_svbrdf(mix_normals(al, m0.normals, m1.normals),
                    blend(al, m0.diffuse, m1.diffuse),
                    blend(al, m0.roughness, m1.roughness),
                    blend(al, m0.specular, m1.specular))

\* SvbrdfDataset.mix, for the blend factor al drawn at line 201.
mix(al, sv_0, sv_1) ==
    [i \in Rows(sv_0) |-> [j \in Cols(sv_0) |-> mix_pixel(al, sv_0[i][j], sv_1[i][j])]]

\* The blend factors torch.Tensor(1).uniform_(0.1, 0.9) is drawn from.
MixAlphas == {Ratio(1, 10), Half, Ratio(3, 4)}

Mix ==
    /\ pc = "mix"
    /\ \E al \in MixAlphas :
        /\ alpha' = al
        /\ mixed' = mix(al, svbrdf_0, svbrdf_1)
    /\ pc' = "mixed"
    /\ UNCHANGED <<svbrdf_0, svbrdf_1>>
    /\ UNCHANGED <<renderVars, datasetVars>>

\* The inputs mix is checked on: unit normals facing up, lying in the patch
\* plane in opposite directions, tilted, and facing down; three appearances.
MixNormals ==
    {V3(0, 0, 1), V3(1, 0, 0), V3(0 - 1, 0, 0),
     <<Ratio(3, 5), Zero, Ratio(4, 5)>>, V3(0, 0, 0 - 1)}

MixAppearances ==
    {<<Gray(Half), Gray(Half), Gray(Ratio(4, 100))>>,
     <<<<One, Zero, Half>>, Gray(Zero), Gray(One)>>,
     <<Gray(Zero), Gray(One), <<Ratio(1, 3), Half, Zero>>>>}

MixMaterials ==
    {pack_svbrdf(n, a[1], a[2], a[3]) : n \in MixNormals, a \in MixAppearances}

MixSvbrdfs ==
    {Patch(ImageSize, m, AllPixels(ImageSize)) : m \in MixMaterials}
        \cup {Patch(ImageSize, pack_svbrdf(V3(1, 0, 0), Gray(One), Gray(One), Gray(One)),
                    CentrePixels(ImageSize))}

MixInit ==
    /\ pc = "mix"
    /\ svbrdf_0 \in MixSvbrdfs
    /\ svbrdf_1 \in MixSvbrdfs
    /\ alpha = None /\ mixed = None
    /\ RenderIdle /\ DatasetIdle

MixNext == Mix

MixSpec == MixInit /\ [][MixNext]_vars

\* ------------------------------------------------------------------------
\* dataset.py: SvbrdfDataset
\* ------------------------------------------------------------------------

MaxImages == 3      \* largest input_image_count and used_input_image_count

\* A constructor that keeps mix_materials as it was passed.
SvbrdfDataset_mix_kept(image_size, input_image_count, used_input_image_count, use_augmentation, mix_materials, no_svbrdf, is_linear) ==
    [image_size             |-> image_size,
     input_image_count      |-> input_image_count,
     used_input_image_count |-> used_input_image_count,
     use_augmentation       |-> use_augmentation,
     mix_materials          |-> mix_materials,
     no_svbrdf              |-> no_svbrdf,
     is_linear              |-> is_linear]

\* SvbrdfDataset.__init__: the fields of the dataset object.
SvbrdfDataset(image_size, input_image_count, used_input_image_count, use_augmentation, mix_materials, no_svbrdf, is_linear) ==
    [image_size             |-> image_size,
     input_image_count      |-> input_image_count,
     used_input_image_count |-> used_input_image_count,
     use_augmentation       |-> use_augmentation,
     mix_materials          |-> IF mix_materials /\ input_image_count > 0
                                THEN FALSE ELSE mix_materials,
     no_svbrdf              |-> no_svbrdf,
     is_linear              |-> is_linear]

\* self.file_paths: the files of the data directory.
file_paths == <<1, 2>>

\* A colour value of a file, one of 0, 0.25, 0.5, 0.75, 1.
Pal(x) == Ratio(x % 5, 4)

\* The pixel of file fp in row r, column c of its b-th square block: the
\* blocks are the input photographs followed by the maps of the SVBRDF
\* (normals encoded to the unit interval, diffuse, roughness, specular).
\* The normal map of the second file is blank: 0.5 in every channel.
FilePixel(s, fp, b, r, c) ==
    LET m == b - s.input_image_count
    IN  IF m <= 0 THEN <<Pal(b + r), Pal(fp + c), Pal(fp + b)>>
        ELSE IF m = 1 THEN (IF fp > 1 THEN Gray(Half)
                            ELSE IF (fp + r + c) % 2 = 1
                            THEN <<Half, Half, One>>
                            ELSE <<Ratio(8, 10), Half, Ratio(9, 10)>>)
        ELSE IF m = 2 THEN <<Ratio(fp, 5), Ratio(1, 10), Ratio(r, 20)>>
        ELSE IF m = 3 THEN Gray(Ratio(fp + c, 5))
        ELSE Gray(Ratio(4 * fp, 100))

\* svbrdf_map_count + self.input_image_count
chunk_count(s) == s.input_image_count + (IF s.no_svbrdf THEN 0 ELSE 4)

\* plt.imread(file_path): rows of pixels, ImageSize high, one square block
\* wide for every photograph and map of the file.
imread(s, fp) ==
    LET blocks == IF chunk_count(s) = 0 THEN 1 ELSE chunk_count(s)
    IN  [r \in 1..ImageSize |-> [c \in 1..(ImageSize * blocks) |->
            FilePixel(s, fp, ((c - 1) \div ImageSize) + 1, r, ((c - 1) % ImageSize) + 1)]]

\* full_image.chunk(chunks, dim=-1): the image cut along its width into
\* pieces of ceil(width / chunks) columns.
chunk(full_image, chunks) ==
    LET w  == Len(full_image[1])
        cw == (w + chunks - 1) \div chunks
    IN  [k \in 1..((w + cw - 1) \div cw) |->
            [r \in 1..Len(full_image) |->
                [c \in 1..(IF k * cw <= w THEN cw ELSE w - (k - 1) * cw) |->
                    full_image[r][(k - 1) * cw + c]]]]

\* utils.decode_from_unit_interval
decode_from_unit_interval(v) == [c \in 1..3 |-> FSub(FMul(v[c], Two), One)]

\* The SVBRDF read_sample packs from the maps of the file, or the dummy one.
read_svbrdf(s, image_parts) ==
    [r \in 1..ImageSize |-> [c \in 1..ImageSize |->
        IF s.no_svbrdf
        THEN pack_svbrdf(V3(0, 0, 1), Gray(Zero), Gray(Zero), Gray(Zero))
        ELSE pack_svbrdf(
                decode_from_unit_interval(image_parts[s.input_image_count + 1][r][c]),
                image_parts[s.input_image_count + 2][r][c],
                image_parts[s.input_image_count + 3][r][c],
                image_parts[s.input_image_count + 4][r][c])]]

\* min(self.input_image_count, self.used_input_image_count)
read_input_image_count(s) ==
    IF s.input_image_count < s.used_input_image_count
    THEN s.input_image_count ELSE s.used_input_image_count

\* A read_sample that reads the first read_input_image_count photographs.
read_sample_first(s, fp) ==
    IF chunk_count(s) = 0 THEN [raised |-> TRUE]
    ELSE LET image_parts == chunk(imread(s, fp), chunk_count(s))
         IN  [raised       |-> FALSE,
              input_images |-> SubSeq(image_parts, 1, read_input_image_count(s)),
              svbrdf       |-> read_svbrdf(s, image_parts)]

\* SvbrdfDataset.read_sample: the last read_input_image_count photographs of
\* the file and its SVBRDF. chunk raises for 0 chunks.
read_sample(s, fp) ==
    IF chunk_count(s) = 0 THEN [raised |-> TRUE]
    ELSE LET image_parts == chunk(imread(s, fp), chunk_count(s))
         IN  [raised       |-> FALSE,
              input_images |-> SubSeq(image_parts,
                                      s.input_image_count - read_input_image_count(s) + 1,
                                      s.input_image_count),
              svbrdf       |-> read_svbrdf(s, image_parts)]

\* utils.crop_square(tensor, anchor, size): the size x size window whose top
\* left pixel is anchor (counted from 0).
crop_square(img, anchor, size) ==
    [r \in 1..size |-> [c \in 1..size |-> img[anchor[1] + r][anchor[2] + c]]]

\* The fifth root of x in [0, 1], by bisection.
RECURSIVE Root5Iter(_, _, _, _)
Root5Iter(x, lo, hi, n) ==
    IF n = 0 THEN lo
    ELSE LET mid == FMul(FAdd(lo, hi), Half)
         IN  IF FLe(Pow5(mid), x) THEN Root5Iter(x, mid, hi, n - 1)
             ELSE Root5Iter(x, lo, mid, n - 1)

Root5(x) == IF FGe(x, One) THEN One ELSE Root5Iter(x, Zero, One, MantBits + 1)

\* utils.gamma_decode: x ** 2.2 per channel, as x^2 * x^(1/5).
gamma_decode(img) ==
    [r \in Rows(img) |-> [c \in Cols(img) |->
        [ch \in 1..3 |-> FMul(Square(img[r][c][ch]), Root5(img[r][c][ch]))]]]

\* Lines 93-102: the crop of the SVBRDF, and the crop and linearisation of
\* the photographs.
crop_svbrdf(s, sv) == crop_square(sv, <<0, 0>>, s.image_size)

crop_images(s, images) ==
    [k \in 1..Len(images) |->
        LET cropped == crop_square(images[k], <<0, 0>>, s.image_size)
        IN  IF s.is_linear THEN cropped ELSE gamma_decode(cropped)]

\* Line 106 without its test of the count's sign.
must_generate_unguarded(count) == TRUE

\* Line 106: if generated_input_image_count > 0
must_generate(count) == count > 0

fixed_light_distance == Ratio(2197, 1000)
fixed_view_distance == Ratio(11, 4)

\* The outcomes a random draw of the sampler is taken from.
Draws == {1, 2}

\* utils.generate_normalized_random_direction(count, min_eps, max_eps): count
\* unit directions of the upper hemisphere, away from the pole and the horizon.
HemisphereDirections ==
    << <<Ratio(3, 5), Zero, Ratio(4, 5)>>, <<Zero, FNeg(Ratio(4, 5)), Ratio(3, 5)>> >>

generate_normalized_random_direction(count, draw) ==
    [k \in 1..count |-> HemisphereDirections[((k + draw) % 2) + 1]]

\* torch.Tensor(2).uniform_(-0.75, 0.75) and torch.Tensor(2).uniform_(-0.25, 0.25)
LightXY == << <<Zero, Zero>>, <<Half, FNeg(Half)>> >>
ViewXY == << <<Zero, Zero>>, <<Ratio(1, 8), FNeg(Ratio(1, 5))>> >>

\* Light poses whose hemisphere directions are not scaled to the light distance.
sample_light_poses_unscaled(count, draw) ==
    <<LightXY[draw] \o <<fixed_light_distance>>>> \o
        generate_normalized_random_direction(count - 1, draw)

\* Lines 116-119
sample_light_poses(count, draw) ==
    <<LightXY[draw] \o <<fixed_light_distance>>>> \o
        [k \in 1..(count - 1) |->
            VMulS(generate_normalized_random_direction(count - 1, draw)[k],
                  fixed_light_distance)]

\* torch.abs(torch.Tensor(count).normal_(mean=20.0, std=std_deviation))
LightIntensity(count, draw) ==
    [k \in 1..count |-> IF draw = 1 THEN FromInt(20) ELSE Ratio(200 + k, 10)]

\* torch.abs(torch.Tensor(count, 3).normal_(mean=1.0, std=0.03))
WhiteBalance(count, draw) ==
    [k \in 1..count |->
        IF draw = 1 THEN Gray(One) ELSE <<Ratio(103, 100), One, Ratio(97, 100)>>]

\* Light colours that are augmented whatever use_augmentation says.
sample_light_colors_augmented(s, count, draw) ==
    [k \in 1..count |->
        [ch \in 1..3 |->
            FMul(LightIntensity(count, draw)[k], WhiteBalance(count, draw)[k][ch])]]

\* Lines 121-132
sample_light_colors(s, count, draw) ==
    IF s.use_augmentation
    THEN [k \in 1..count |->
            [ch \in 1..3 |->
                FMul(LightIntensity(count, draw)[k], WhiteBalance(count, draw)[k][ch])]]
    ELSE [k \in 1..count |-> Gray(FromInt(30))]

\* Lines 134-138: torch.Tensor(count).uniform_(0.25, 2.75), or the fixed distance
sample_view_distance(s, count, draw) ==
    IF s.use_augmentation
    THEN [k \in 1..count |-> IF draw = 1 THEN Ratio(3, 2) ELSE Ratio(1 + (k % 5), 2)]
    ELSE [k \in 1..count |-> fixed_view_distance]

\* View poses whose first pose is concatenated as (distance, x, y).
sample_view_poses_swapped(s, count, draw) ==
    LET view_distance == sample_view_distance(s, count, draw)
    IN  <<SubSeq(view_distance, 1, 1) \o ViewXY[draw]>> \o
            [k \in 1..(count - 1) |->
                VMulS(generate_normalized_random_direction(count - 1, draw)[k],
                      view_distance[k + 1])]

\* Lines 140-143
sample_view_poses(s, count, draw) ==
    LET view_distance == sample_view_distance(s, count, draw)
    IN  <<ViewXY[draw] \o SubSeq(view_distance, 1, 1)>> \o
            [k \in 1..(count - 1) |->
                VMulS(generate_normalized_random_direction(count - 1, draw)[k],
                      view_distance[k + 1])]

\* torch.zeros_like(rendering).normal_(mean=0.0, std=std_deviation_noise)
sample_noise(rendering, draw) ==
    [r \in Rows(rendering) |-> [c \in Cols(rendering) |->
        IF draw = 1 THEN Gray(Ratio(4, 1000))
        ELSE <<FNeg(Centi), Zero, Centi>>]]

\* torch.clamp(rendering + noise, min=0.0, max=1.0)
add_noise(rendering, noise) ==
    [r \in Rows(rendering) |-> [c \in Cols(rendering) |->
        [ch \in 1..3 |-> Clamp(FAdd(rendering[r][c][ch], noise[r][c][ch]), Zero, One)]]]

\* A concatenation that puts the new rendering first.
cat_before(images, rendering) == <<rendering>> \o images

\* torch.cat([input_images, rendering], dim=0)
cat(images, rendering) == Append(images, rendering)

\* SvbrdfDataset.__getitem__, one action per step. The locals that a step
\* does not assign keep their values.

\* Line 83: input_images, svbrdf = self.read_sample(self.file_paths[idx])
ReadSample ==
    /\ pc = "read"
    /\ LET sample == read_sample(self, file_paths[idx])
       IN  IF sample.raised
           THEN /\ pc' = "raised"
                /\ UNCHANGED <<input_images, item_svbrdf>>
           ELSE /\ input_images' = sample.input_images
                /\ item_svbrdf' = sample.svbrdf
                /\ pc' = IF self.mix_materials THEN "mix" ELSE "crop"
    /\ UNCHANGED <<self, idx, generated_input_image_count, light_poses, light_colors,
                   view_poses, loop_i, render_calls, sampled, result>>
    /\ UNCHANGED <<renderVars, mixVars>>

\* Lines 85-89: the sample is mixed with another sample of the dataset.
MixSample ==
    /\ pc = "mix"
    /\ \E other_index \in 1..Len(file_paths) : \E al \in MixAlphas :
        LET other_svbrdf == read_sample(self, file_paths[other_index]).svbrdf
        IN  /\ svbrdf_0' = item_svbrdf
            /\ svbrdf_1' = other_svbrdf
            /\ alpha' = al
            /\ mixed' = mix(al, item_svbrdf, other_svbrdf)
            /\ item_svbrdf' = mixed'
    /\ pc' = "crop"
    /\ UNCHANGED <<self, idx, input_images, generated_input_image_count, light_poses,
                   light_colors, view_poses, loop_i, render_calls, sampled, result>>
    /\ UNCHANGED renderVars

\* Lines 93-106: crop, linearise, and count the images to generate.
CropAndCount ==
    /\ pc = "crop"
    /\ item_svbrdf' = crop_svbrdf(self, item_svbrdf)
    /\ input_images' = crop_images(self, input_images)
    /\ generated_input_image_count' = self.used_input_image_count - Len(input_images')
    /\ pc' = IF must_generate(generated_input_image_count') THEN "light_poses" ELSE "return"
    /\ UNCHANGED <<self, idx, light_poses, light_colors, view_poses, loop_i,
                   render_calls, sampled, result>>
    /\ UNCHANGED <<renderVars, mixVars>>

\* Lines 116-119
SampleLightPoses ==
    /\ pc = "light_poses"
    /\ \E draw \in Draws :
        light_poses' = sample_light_poses(generated_input_image_count, draw)
    /\ sampled' = sampled \o <<"light_xy">> \o
            (IF generated_input_image_count > 1 THEN <<"light_hemisphere">> ELSE <<>>)
    /\ pc' = "light_colors"
    /\ UNCHANGED <<self, idx, input_images, item_svbrdf, generated_input_image_count,
                   light_colors, view_poses, loop_i, render_calls, result>>
    /\ UNCHANGED <<renderVars, mixVars>>

\* Lines 121-132
SampleLightColors ==
    /\ pc = "light_colors"
    /\ \E draw \in (IF self.use_augmentation THEN Draws ELSE {1}) :
        light_colors' = sample_light_colors(self, generated_input_image_count, draw)
    /\ sampled' = sampled \o
            (IF self.use_augmentation
             THEN <<"std_deviation", "light_intensity", "white_balance">> ELSE <<>>)
    /\ pc' = "view_poses"
    /\ UNCHANGED <<self, idx, input_images, item_svbrdf, generated_input_image_count,
                   light_poses, view_poses, loop_i, render_calls, result>>
    /\ UNCHANGED <<renderVars, mixVars>>

\* Lines 134-145
SampleViewPoses ==
    /\ pc = "view_poses"
    /\ \E draw \in Draws :
        view_poses' = sample_view_poses(self, generated_input_image_count, draw)
    /\ sampled' = sampled \o
            (IF self.use_augmentation THEN <<"view_distance">> ELSE <<>>) \o
            <<"view_xy">> \o
            (IF generated_input_image_count > 1 THEN <<"view_hemisphere">> ELSE <<>>)
    /\ loop_i' = 0
    /\ pc' = "generate"
    /\ UNCHANGED <<self, idx, input_images, item_svbrdf, generated_input_image_count,
                   light_poses, light_colors, render_calls, result>>
    /\ UNCHANGED <<renderVars, mixVars>>

\* Lines 146-150: the loop over range(generated_input_image_count) builds the
\* scene of iteration i and calls renderer.render, which runs the steps of
\* LocalRenderer.render.
CallRender ==
    /\ pc = "generate"
    /\ loop_i < generated_input_image_count
    /\ scene' = MkScene(view_poses[loop_i + 1], light_poses[loop_i + 1],
                        light_colors[loop_i + 1])
    /\ svbrdf' = item_svbrdf
    /\ wo' = None /\ wi' = None /\ material' = None
    /\ f' = None /\ radiance' = None /\ image' = None
    /\ pc' = "render"
    /\ UNCHANGED <<mixVars, datasetVars>>

\* Lines 150-156: the rendering returned gets its noise and is appended.
AddNoise ==
    /\ pc = "rendered"
    /\ \E draw \in Draws :
        LET noise == sample_noise(image, draw)
        IN  /\ input_images' = cat(input_images, add_noise(image, noise))
            /\ render_calls' = Append(render_calls,
                    [scene |-> scene, svbrdf |-> svbrdf,
                     rendering |-> image, noise |-> noise])
    /\ sampled' = sampled \o <<"std_deviation_noise", "noise">>
    /\ loop_i' = loop_i + 1
    /\ pc' = IF loop_i' < generated_input_image_count THEN "generate" ELSE "return"
    /\ UNCHANGED <<self, idx, item_svbrdf, generated_input_image_count, light_poses,
                   light_colors, view_poses, result>>
    /\ UNCHANGED <<renderVars, mixVars>>

\* Line 161: return {'inputs': input_images, 'svbrdf': svbrdf}
Return ==
    /\ pc = "return"
    /\ result' = [inputs |-> input_images, svbrdf |-> item_svbrdf]
    /\ pc' = "returned"
    /\ UNCHANGED <<self, idx, input_images, item_svbrdf, generated_input_image_count,
                   light_poses, light_colors, view_poses, loop_i, render_calls, sampled>>
    /\ UNCHANGED <<renderVars, mixVars>>

\* The image_size the datasets are constructed with.
ImageSizes == {1}

\* The datasets __getitem__ is called on.
Datasets ==
    {SvbrdfDataset(sz, ic, used, aug, mm, nosv, lin) :
        sz \in ImageSizes, ic \in 0..MaxImages, used \in (0 - 1)..MaxImages,
        aug \in BOOLEAN, mm \in BOOLEAN, nosv \in BOOLEAN, lin \in BOOLEAN}

Init ==
    /\ pc = "read"
    /\ self \in Datasets
    /\ idx \in 1..Len(file_paths)
    /\ input_images = None /\ item_svbrdf = None
    /\ generated_input_image_count = None
    /\ light_poses = None /\ light_colors = None /\ view_poses = None
    /\ loop_i = None /\ result = None
    /\ render_calls = <<>> /\ sampled = <<>>
    /\ RenderIdle /\ MixIdle

Next ==
    \/ ReadSample
    \/ MixSample
    \/ CropAndCount
    \/ SampleLightPoses
    \/ SampleLightColors
    \/ SampleViewPoses
    \/ CallRender
    \/ RenderView
    \/ RenderUnpack
    \/ RenderLight
    \/ RenderBrdf
    \/ RenderShade
    \/ RenderReturn
    \/ AddNoise
    \/ Return

Spec == Init /\ [][Next]_vars

\* ------------------------------------------------------------------------
\* Properties of LocalRenderer
\* ------------------------------------------------------------------------

PixelsOf(img) == Rows(img) \X Cols(img)
At(img, p) == img[p[1]][p[2]]

\* x is a number of the closed interval [0, 1] (NaN and infinities are not).
InUnitInterval(x) == FLe(Zero, x) /\ FLe(x, One)

\* C1: every channel of every pixel of the image render returns is a number
\* of [0, 1], never NaN or infinite, also when a view or light direction is
\* perpendicular to the pixel's normal.
C1_RadianceBounds ==
    pc = "rendered" =>
        \A p \in PixelsOf(image) : \A c \in 1..3 : InUnitInterval(At(image, p)[c])

\* C2: at every pixel whose light direction has wi . normal <= 0 (negative or
\* exactly zero), the rendered value is exactly zero in all three channels.
C2_HorizonZeroing ==
    pc = "rendered" =>
        \A p \in PixelsOf(image) :
            FLe(dot_product(At(wi, p), At(material, p).normals), Zero)
                => \A c \in 1..3 : At(image, p)[c] = Zero

\* A unit vector, up to the rounding of the significand.
IsUnit(v) ==
    LET n2   == dot_product(v, v)
        diff == FSub(n2, One)
    IN  IsFinite(n2) /\ FLt(diff, Milli) /\ FLt(FNeg(diff), Milli)

\* The preconditions of the BRDF's non-negativity: unit wi, wo, normal,
\* roughness in (0, 1], specular and diffuse in [0, 1].
BrdfInputsValid(p) ==
    /\ IsUnit(At(wi, p)) /\ IsUnit(At(wo, p)) /\ IsUnit(At(material, p).normals)
    /\ \A c \in 1..3 :
        /\ FGt(At(material, p).roughness[c], Zero)
        /\ FLe(At(material, p).roughness[c], One)
        /\ InUnitInterval(At(material, p).specular[c])
        /\ InUnitInterval(At(material, p).diffuse[c])

\* C3: evaluate_brdf returns a non-negative value in every channel for all
\* unit wi, wo, normal and valid materials, also when wo . normal and
\* wi . normal have opposite signs or one of them is zero.
C3_BrdfNonNegative ==
    pc = "shade" =>
        \A p \in PixelsOf(f) :
            BrdfInputsValid(p) => \A c \in 1..3 : FGe(At(f, p)[c], Zero)

\* C4: every division of the BRDF evaluation (in D, in G1 and in
\* F*G*D / (4*VN*LN)) has a divisor of at least 0.001, so that none divides
\* by zero, in particular when NH = 0, VN = 0 or LN = 0.
C4_DivisorsClamped ==
    pc = "shade" =>
        \A p \in PixelsOf(f) : \A c \in 1..3 :
            \A d \in brdf_divisors(At(wi, p), At(wo, p), At(material, p).normals,
                                   At(material, p).roughness[c]) :
                FGe(d, Milli)

\* Some pixel of the SVBRDF argument has roughness 0.
HasZeroRoughness ==
    \E p \in PixelsOf(svbrdf) : \E c \in 1..3 :
        unpack_svbrdf(At(svbrdf, p)).roughness[c] = Zero

\* C5: render of an SVBRDF with roughness 0 at some or all pixels returns a
\* finite, non-NaN value at every pixel; the roughness given to evaluate_brdf
\* is >= 0.001 whatever the input holds.
C5_ZeroRoughnessFinite ==
    (pc = "rendered" /\ HasZeroRoughness) =>
        /\ \A p \in PixelsOf(material) : \A c \in 1..3 :
                FGe(At(material, p).roughness[c], Milli)
        /\ \A p \in PixelsOf(image) : \A c \in 1..3 : IsFinite(At(image, p)[c])

\* The flat patch lit and viewed from [0,0,2] with light colour [50,50,50].
FlatPatch == Patch(ImageSize, FlatMaterial, {})
FlatScene == MkScene(V3(0, 0, 2), V3(0, 0, 2), Gray(FromInt(50)))
FlatRendered == pc = "rendered" /\ svbrdf = FlatPatch /\ scene = FlatScene

\* The edge and corner pixels of an n x n image.
BorderPixels(n) ==
    {p \in AllPixels(n) : p[1] \in {1, n} \/ p[2] \in {1, n}}

\* C10, as claimed: in the rendering of the flat patch the value at the pixel
\* nearest the centre is strictly greater than the value at every edge and
\* corner pixel, and is not zero.
C10_CentreBrighter ==
    FlatRendered =>
        \A p \in CentrePixels(ImageSize) : \A q \in BorderPixels(ImageSize) :
            \A c \in 1..3 :
                /\ FGt(At(image, p)[c], At(image, q)[c])
                /\ At(image, p)[c] # Zero

\* C10, amended: the radiance before the final clamp is strictly greater at
\* the centre than at every edge and corner pixel, but it exceeds 1 at all of
\* them, so the returned image is 1.0 at the centre, the edges and the
\* corners alike: the centre value is not zero and equals the others.
C10_CentreSaturated ==
    FlatRendered =>
        /\ \A p \in CentrePixels(ImageSize) : \A q \in BorderPixels(ImageSize) :
            \A c \in 1..3 : FGt(At(radiance, p)[c], At(radiance, q)[c])
        /\ \A p \in CentrePixels(ImageSize) \cup BorderPixels(ImageSize) :
            \A c \in 1..3 : At(image, p)[c] = One

C10_Witness == FlatRendered

\* ------------------------------------------------------------------------
\* Properties of SvbrdfDataset.mix
\* ------------------------------------------------------------------------

\* C8: the normal of the mixed material has Euclidean length 1 at every
\* pixel (never zero-length or undefined), for all pairs of SVBRDFs and every
\* blend factor, also when a normal has z <= 0.01 or the projected normals
\* point in opposite directions.
C8_MixedNormalUnit ==
    pc = "mixed" =>
        \A p \in PixelsOf(mixed) : IsUnit(unpack_svbrdf(At(mixed, p)).normals)

\* Two floats that differ by less than 0.001.
Close(a, b) ==
    LET diff == FSub(a, b)
    IN  IsFinite(diff) /\ FLt(diff, Milli) /\ FLt(FNeg(diff), Milli)

\* C9: mix of two identical materials with unit normals returns that
\* material, in normals, diffuse, roughness and specular, for every blend
\* factor (equality up to the rounding of the arithmetic).
C9_MixIdentical ==
    (pc = "mixed" /\ svbrdf_0 = svbrdf_1) =>
        \A p \in PixelsOf(mixed) : \A k \in 1..12 :
            Close(At(mixed, p)[k], At(svbrdf_0, p)[k])

C9_Witness ==
    /\ pc = "mixed" /\ svbrdf_0 = svbrdf_1 /\ alpha = Half
    /\ \E p \in PixelsOf(mixed) : unpack_svbrdf(At(svbrdf_0, p)).normals[3] # One

\* ------------------------------------------------------------------------
\* Properties of SvbrdfDataset.__getitem__
\* ------------------------------------------------------------------------

\* generated_input_image_count has been computed (line 105 has run).
Counted == pc \notin {"read", "mix", "crop", "raised"}

\* The photographs read_sample reads from the file of the item, cropped and
\* linearised, in the order of the file.
RealImages ==
    LET parts == chunk(imread(self, file_paths[idx]), chunk_count(self))
        n     == read_input_image_count(self)
    IN  [k \in 1..n |->
            LET cropped == crop_square(parts[self.input_image_count - n + k],
                                       <<0, 0>>, self.image_size)
            IN  IF self.is_linear THEN cropped ELSE gamma_decode(cropped)]

\* C6: when n > 0 images are generated, the renderer is called exactly n
\* times, call i with the scene of view_poses[i], light_poses[i] and
\* light_colors[i], and the returned inputs are the real images in their
\* order followed by the n renderings (with their noise) in the order of the
\* calls.
C6_RenderOrder ==
    (pc = "returned" /\ generated_input_image_count > 0) =>
        LET n    == generated_input_image_count
            real == RealImages
            r    == Len(real)
        IN  /\ Len(render_calls) = n
            /\ Len(result.inputs) = r + n
            /\ SubSeq(result.inputs, 1, r) = real
            /\ \A k \in 1..n :
                /\ render_calls[k].scene =
                        MkScene(view_poses[k], light_poses[k], light_colors[k])
                /\ render_calls[k].svbrdf = result.svbrdf
                /\ result.inputs[r + k] =
                        add_noise(render_calls[k].rendering, render_calls[k].noise)

C6_Witness ==
    /\ pc = "returned" /\ generated_input_image_count > 1
    /\ Len(result.inputs) > generated_input_image_count
    /\ render_calls[1].rendering # render_calls[2].rendering
    /\ result.inputs[Len(result.inputs)] # result.inputs[Len(result.inputs) - 1]

\* C7: when the number of images to generate is zero or negative, nothing
\* is sampled, the renderer is never called, no error is raised, and the
\* returned inputs are exactly the real images that were read.
C7_NothingToGenerate ==
    (Counted /\ generated_input_image_count <= 0) =>
        /\ pc \in {"return", "returned"}
        /\ sampled = <<>>
        /\ render_calls = <<>>
        /\ RenderIdle
        /\ input_images = RealImages
        /\ pc = "returned" => result.inputs = input_images

C7_Witness ==
    /\ pc = "returned" /\ generated_input_image_count = 0
    /\ Len(result.inputs) = MaxImages /\ sampled = <<>>

\* C11: in every constructed dataset mix_materials is true only if
\* input_image_count is 0, so for input_image_count > 0 __getitem__ never
\* calls mix and returns the SVBRDF of the file as it was read (cropped),
\* whatever mix_materials value the constructor was given.
C11_NoMixWithInputs ==
    /\ self.mix_materials => self.input_image_count = 0
    /\ self.input_image_count > 0 =>
        /\ pc # "mix"
        /\ MixIdle
        /\ pc = "returned" =>
            result.svbrdf = crop_svbrdf(self, read_sample(self, file_paths[idx]).svbrdf)

\* A dataset with photographs that was constructed with mix_materials = True
\* has returned an item.
C11_Witness ==
    /\ pc = "returned"
    /\ self.input_image_count > 0
    /\ self = SvbrdfDataset(self.image_size, self.input_image_count,
                            self.used_input_image_count, self.use_augmentation,
                            TRUE, self.no_svbrdf, self.is_linear)

\* The Euclidean length of a vector.
Length(v) == FSqrt(dot_product(v, v))

\* -bound <= x <= bound
Within(x, bound) == FLe(FNeg(bound), x) /\ FLe(x, bound)

\* The scene sampler has just drawn the light poses (lines 116-119 have
\* run), or the item made with them has been returned.
LightPosesSampled ==
    \/ pc = "light_colors"
    \/ pc = "returned" /\ generated_input_image_count > 0

\* The number of draws of one kind the sampler has made.
DrawCount(kind) == Cardinality({k \in 1..Len(sampled) : sampled[k] = kind})

\* C12: for n >= 1 generated images exactly n light poses are produced; the
\* first is (x, y, 2.197) with x, y in [-0.75, 0.75]; each of the other n-1
\* is at Euclidean distance 2.197 from the patch centre; the hemisphere
\* sampler is not called when n = 1 (and once otherwise).
C12_LightPoses ==
    LightPosesSampled =>
        /\ Len(light_poses) = generated_input_image_count
        /\ light_poses[1][3] = fixed_light_distance
        /\ Within(light_poses[1][1], Ratio(3, 4))
        /\ Within(light_poses[1][2], Ratio(3, 4))
        /\ \A k \in 2..generated_input_image_count :
                Close(Length(light_poses[k]), fixed_light_distance)
        /\ DrawCount("light_xy") = 1
        /\ DrawCount("light_hemisphere") =
                (IF generated_input_image_count = 1 THEN 0 ELSE 1)

C12_Witness ==
    /\ pc = "returned" /\ generated_input_image_count = MaxImages
    /\ light_poses[2] # light_poses[3]
    /\ light_poses[1][1] # Zero

\* The scene sampler has just drawn the view poses (lines 134-143 have
\* run), or the item made with them has been returned.
ViewPosesSampled ==
    \/ pc = "generate" /\ loop_i = 0
    \/ pc = "returned" /\ generated_input_image_count > 0

\* C13 as claimed: for n >= 1 generated images the first view pose is
\* (x, y, 2.75) with x, y in [-0.25, 0.25], with augmentation enabled as
\* well as disabled.
C13_FirstViewFixed ==
    ViewPosesSampled =>
        /\ Within(view_poses[1][1], Ratio(1, 4))
        /\ Within(view_poses[1][2], Ratio(1, 4))
        /\ view_poses[1][3] = fixed_view_distance

\* C13 as the code has it: the first view pose is (x, y, d) with x, y in
\* [-0.25, 0.25]; d is 2.75 when augmentation is disabled and lies in
\* [0.25, 2.75] when it is enabled.
C13_FirstViewPose ==
    ViewPosesSampled =>
        /\ Len(view_poses[1]) = 3
        /\ Within(view_poses[1][1], Ratio(1, 4))
        /\ Within(view_poses[1][2], Ratio(1, 4))
        /\ ~self.use_augmentation => view_poses[1][3] = fixed_view_distance
        /\ self.use_augmentation =>
            /\ FLe(Ratio(1, 4), view_poses[1][3])
            /\ FLe(view_poses[1][3], fixed_view_distance)

C13_Witness ==
    /\ pc = "returned" /\ generated_input_image_count > 0
    /\ self.use_augmentation
    /\ view_poses[1][3] # fixed_view_distance
    /\ view_poses[1][1] # Zero

\* C14: with use_augmentation disabled every generated scene has the light
\* colour (30, 30, 30), no white balance or other augmentation is drawn, and
\* every view pose uses the fixed view distance 2.75 (as the third component
\* of the first pose, as the length of the hemisphere poses).
C14_NoAugmentation ==
    (ViewPosesSampled /\ ~self.use_augmentation) =>
        /\ Len(light_colors) = generated_input_image_count
        /\ \A k \in 1..generated_input_image_count :
                light_colors[k] = Gray(FromInt(30))
        /\ view_poses[1][3] = fixed_view_distance
        /\ \A k \in 2..generated_input_image_count :
                Close(Length(view_poses[k]), fixed_view_distance)
        /\ \A kind \in {"std_deviation", "light_intensity", "white_balance",
                        "view_distance"} : DrawCount(kind) = 0
        /\ \A k \in 1..Len(render_calls) :
                /\ render_calls[k].scene.light.color = Gray(FromInt(30))
                /\ render_calls[k].scene.camera.pos = view_poses[k]

C14_Witness ==
    /\ pc = "returned" /\ ~self.use_augmentation
    /\ generated_input_image_count = MaxImages
    /\ render_calls[1].scene.camera.pos # render_calls[2].scene.camera.pos
    /\ render_calls[1].scene.light.pos # render_calls[2].scene.light.pos
    /\ render_calls[1].scene.light.color = render_calls[2].scene.light.color

\* C15: every synthetic image appended to the inputs has all its values in
\* [0, 1], whatever noise was drawn.
C15_SyntheticInUnitInterval ==
    \A k \in 1..Len(render_calls) :
        LET img == input_images[Len(input_images) - Len(render_calls) + k]
        IN  \A p \in PixelsOf(img) : \A ch \in 1..3 : InUnitInterval(At(img, p)[ch])

\* C16: for used_input_image_count >= 0 the returned inputs hold exactly
\* used_input_image_count images: the last min(input_image_count,
\* used_input_image_count) photographs of the file in their order, then
\* used_input_image_count - min(...) synthetic images.
C16_InputCount ==
    (pc = "returned" /\ self.used_input_image_count >= 0) =>
        LET real == RealImages
            r    == read_input_image_count(self)
        IN  /\ Len(result.inputs) = self.used_input_image_count
            /\ Len(real) = r
            /\ SubSeq(result.inputs, 1, r) = real
            /\ Len(render_calls) = self.used_input_image_count - r
            /\ \A k \in 1..Len(render_calls) :
                    result.inputs[r + k] =
                        add_noise(render_calls[k].rendering, render_calls[k].noise)

C16_Witness ==
    /\ pc = "returned"
    /\ self.input_image_count = 2 /\ self.used_input_image_count = 3
    /\ Len(result.inputs) = 3 /\ Len(render_calls) = 1
    /\ result.inputs[1] # result.inputs[2]

\* The channels of diffuse, roughness and specular in a packed pixel.
AppearanceChannels == 4..12

\* The smaller and the larger of two floats.
FMin2(a, b) == IF FLt(b, a) THEN b ELSE a
FMax2(a, b) == IF FLt(a, b) THEN b ELSE a

\* C17: mix blends diffuse, roughness and specular with one factor alpha in
\* [0.1, 0.9]; each mixed value lies between the two input values (up to the
\* rounding of the arithmetic), and with inputs in [0, 1] it is in [0, 1].
C17_LerpBounds ==
    pc = "mixed" =>
        /\ FLe(Ratio(1, 10), alpha) /\ FLe(alpha, Ratio(9, 10))
        /\ \A p \in PixelsOf(mixed) : \A k \in AppearanceChannels :
            LET a == At(svbrdf_0, p)[k]
                b == At(svbrdf_1, p)[k]
                m == At(mixed, p)[k]
            IN  /\ m = FAdd(FMul(alpha, a), FMul(FSub(One, alpha), b))
                /\ FLe(FSub(FMin2(a, b), Milli), m)
                /\ FLe(m, FAdd(FMax2(a, b), Milli))
                /\ (InUnitInterval(a) /\ InUnitInterval(b)) => InUnitInterval(m)

C17_Witness ==
    /\ pc = "mixed"
    /\ \E p \in PixelsOf(mixed) :
        /\ \A k \in AppearanceChannels :
                InUnitInterval(At(svbrdf_0, p)[k]) /\ InUnitInterval(At(svbrdf_1, p)[k])
        /\ \E k \in AppearanceChannels :
                FLt(At(svbrdf_0, p)[k], At(mixed, p)[k])
                    /\ FLt(At(mixed, p)[k], At(svbrdf_1, p)[k])
        /\ \E k \in AppearanceChannels :
                At(svbrdf_0, p)[k] = One /\ At(svbrdf_1, p)[k] = One

=============================================================================
